---- MODULE Spec2Model ----
(***************************************************************************)
(* Model of the AFIR charging-station ingestion pipeline:                  *)
(*   scripts/fetch_afir.py                     the paginated fetcher       *)
(*   fin-ev-dashboard/scripts/build_dataset.py extract, flatten, merge,    *)
(*                                             snapshot                    *)
(* JSON values are tagged records, Python mappings are functions whose     *)
(* DOMAIN is the set of keys present, a raised exception is an outcome.    *)
(***************************************************************************)
EXTENDS Integers, Sequences, FiniteSets, TLC

VARIABLES
    \* fetch_afir.py
    fpc,          \* position of the fetch script: idle, loop, done, raised
    out_path,     \* the feed (url / destination file) of the running call
    features,     \* the accumulator of fetch_all_geojson
    cursor,       \* the cursor of fetch_all_geojson
    files,        \* data/raw: feed name -> file text
    ferr,         \* the exception the fetch surfaced ("" when none)
    ret,          \* the value fetch_all_geojson returned (-1 before it returns)
    requests,     \* history: the params of every request issued by the call
    responses,    \* history: every response the call received
    logging,      \* whether the two histories are recorded
    start_files,  \* history: the files when the call started
    \* build_dataset.py
    bpc,          \* position of the build script
    loc_data, st_data,          \* the loaded raw files
    loc_features, st_features,  \* extract_features results
    df_loc, df_st, df,          \* the location, status and merged tables
    csv,          \* data/processed/chargers.csv
    berr          \* the exception the build surfaced ("" when none)

fvars == <<fpc, out_path, features, cursor, files, ferr, ret, requests, responses, logging, start_files>>
bvars == <<bpc, loc_data, st_data, loc_features, st_features, df_loc, df_st, df, csv, berr>>
vars == <<fvars, bvars>>

----------------------------------------------------------------------------
\* JSON values

JNull == [t |-> "null"]
JStr(s) == [t |-> "str", s |-> s]
JList(l) == [t |-> "list", l |-> l]
JDict(d) == [t |-> "dict", d |-> d]
EmptyDict == [k \in {} |-> JNull]

\* isinstance(v, dict)
IsDict(v) == v.t = "dict"
\* isinstance(v, list)
IsList(v) == v.t = "list"

\* Python truthiness of a JSON value
Truthy(v) ==
    CASE v.t = "null" -> FALSE
      [] v.t = "str"  -> v.s # ""
      [] v.t = "num"  -> v.n # 0
      [] v.t = "list" -> v.l # <<>>
      [] v.t = "dict" -> DOMAIN v.d # {}

\* d.get(k, default) on a mapping d
GetOr(d, k, default) == IF k \in DOMAIN d THEN d[k] ELSE default
\* d.get(k)
Get(d, k) == GetOr(d, k, JNull)
\* a or b
Or(a, b) == IF Truthy(a) THEN a ELSE b

\* json.dumps / json.loads: the text of a value, and the value of a text
Dumps(v) == [json |-> v]
Loads(text) == text.json

\* an operation's outcome: a value, or a raised exception
Value(v) == [exc |-> "", v |-> v]
Raise(e) == [exc |-> e]
Raised(o) == o.exc # ""

----------------------------------------------------------------------------
\* The feeds' records

JNum(n) == [t |-> "num", n |-> n]
Point(lon, lat) == JList(<<JNum(lon), JNum(lat)>>)
Feature(props, coords) ==
    JDict([properties |-> JDict(props), geometry |-> JDict([coordinates |-> coords])])

\* location records of the shape the feed documents
LocA == Feature([id |-> JStr("A"), name |-> JStr("Asema")], Point(24, 60))
LocB == Feature([stationId |-> JStr("B")], Point(25, 61))
LocA2 == Feature([id |-> JStr("A"), locationId |-> JStr("B")], Point(26, 62))
LocEmptyId == Feature([id |-> JStr(""), locationId |-> JStr("B")], Point(27, 63))
LocNoId == Feature([name |-> JStr("Nimeton")], Point(28, 64))
LocNoGeom == JDict([properties |-> JDict([id |-> JStr("A")])])
LocShort == Feature([id |-> JStr("B")], JList(<<JNum(29)>>))
LocBlankId == Feature([id |-> JStr("")], Point(30, 65))
LocFeatureSet ==
    {LocA, LocB, LocA2, LocEmptyId, LocNoId, LocNoGeom, LocShort, LocBlankId}

\* status records: properties-wrapped or flat
StA == JDict([properties |-> JDict([locationId |-> JStr("A"), status |-> JStr("free")])])
StA2 == JDict([properties |-> JDict([id |-> JStr("A"), status |-> JStr("busy")])])
StFlatB == JDict([stationId |-> JStr("B"), status |-> JStr("free")])
StNoId == JDict([properties |-> JNull, status |-> JStr("free")])
StBlank == JDict([properties |-> JDict([id |-> JNull, stationId |-> JStr("")])])
StFeatureSet == {StA, StA2, StFlatB, StNoId, StBlank}

\* records with a field of an unexpected type
NotADict == JStr("junk")
DefProps == JDict([properties |-> JStr("oops"),
                   geometry |-> JDict([coordinates |-> Point(24, 60)])])
DefGeom == JDict([properties |-> JDict([id |-> JStr("A")]), geometry |-> JStr("oops")])
DefCoords == Feature([id |-> JStr("A")], JStr("24,60"))
StDefProps == JDict([properties |-> JStr("oops")])
LocDefectSet == {NotADict, DefProps, DefGeom, DefCoords}
StDefectSet == {NotADict, StDefProps}

----------------------------------------------------------------------------
\* scripts/fetch_afir.py

Feeds == {"locations", "statuses"}
PageLimit == 500

MaxRequests == 3
MaxFeatures == 4

\* a file that does not exist, and the text an earlier run left
Missing == [exists |-> FALSE]
FeatureCollection(fs) == JDict([type |-> JStr("FeatureCollection"), features |-> JList(fs)])
OldText == Dumps(FeatureCollection(<<LocB>>))

\* what a feed may answer
Chunks == {<<>>, <<LocA>>, <<LocB>>, <<LocA, LocB>>}
FeaturesPart ==
    {EmptyDict, "features" :> JNull} \cup {"features" :> JList(c) : c \in Chunks}
PaginationPart ==
    {EmptyDict, "pagination" :> JNull, "pagination" :> JStr("x")}
    \cup {"pagination" :> JDict("nextCursor" :> c) :
            c \in {JNull, JStr(""), JStr("c1"), JStr("c2")}}
Bodies == {JDict(f @@ p) : f \in FeaturesPart, p \in PaginationPart} \cup {JList(<<LocA>>)}
Responses ==
    {[status |-> 200, body |-> b] : b \in Bodies}
    \cup {[status |-> s, body |-> JNull] : s \in {404, 503}}

\* the params of a request (lines 23-25)
Params(cur) ==
    IF Truthy(cur) THEN [limit |-> PageLimit, cursor |-> cur] ELSE [limit |-> PageLimit]

\* r.raise_for_status() raises (line 28); the variant raises on server errors only
RaiseForStatusLax(r) == r.status >= 500
RaiseForStatus(r) == r.status >= 400

\* data.get("features", []) if isinstance(data, dict) else [] (line 31)
ChunkOf(data) == IF IsDict(data) THEN GetOr(data.d, "features", JList(<<>>)) ELSE JList(<<>>)

\* features.extend(chunk) (line 32); the variant skips records already held
ExtendDedup(fs, chunk) == fs \o SelectSeq(chunk, LAMBDA f : \A i \in 1..Len(fs) : fs[i] # f)
Extend(fs, chunk) == fs \o chunk

\* (data.get("pagination") or {}).get("nextCursor") if isinstance(data, dict) else None
\* (line 37)
NextCursor(data) ==
    IF ~IsDict(data) THEN Value(JNull)
    ELSE LET pag == Or(Get(data.d, "pagination"), JDict(EmptyDict))
         IN IF IsDict(pag) THEN Value(Get(pag.d, "nextCursor")) ELSE Raise("AttributeError")

\* one pass of the loop body (lines 23-39) on the response r: the new accumulator
\* and cursor, or the exception raised
LoopBody(fs, r) ==
    IF RaiseForStatus(r) THEN Raise("HTTPError")
    ELSE LET chunk == ChunkOf(r.body)
             next == NextCursor(r.body)
         IN IF ~IsList(chunk) THEN Raise("TypeError")
            ELSE IF Raised(next) THEN next
            ELSE Value([features |-> Extend(fs, chunk.l), cursor |-> next.v])

\* `if not cursor: break` (lines 38-39)
Break(cur) == ~Truthy(cur)

\* fetch_all_geojson is called (lines 17-20, from line 49 or 50)
Start(feed) ==
    /\ fpc = "idle"
    /\ fpc' = "loop"
    /\ out_path' = feed
    /\ features' = <<>>
    /\ cursor' = JNull
    /\ start_files' = files
    /\ UNCHANGED <<files, ferr, ret, requests, responses, logging, bvars>>

\* one request and the handling of its response (lines 22-39), and after the
\* last page the write and the return (lines 41-46); an exception ends the call,
\* its locals are kept here as they were before the request
FetchPage(r) ==
    /\ fpc = "loop"
    /\ logging => Len(requests) < MaxRequests
    /\ LET o == LoopBody(features, r)
       IN /\ ~Raised(o) => Len(o.v.features) <= MaxFeatures
          /\ requests' = IF logging THEN Append(requests, Params(cursor)) ELSE requests
          /\ responses' = IF logging THEN Append(responses, r) ELSE responses
          /\ IF Raised(o)
             THEN /\ fpc' = "raised"
                  /\ ferr' = o.exc
                  /\ UNCHANGED <<features, cursor, files, ret>>
             ELSE /\ features' = o.v.features
                  /\ cursor' = o.v.cursor
                  /\ ferr' = ferr
                  /\ IF Break(o.v.cursor)
                     THEN /\ fpc' = "done"
                          /\ files' = [files EXCEPT
                                 ![out_path] = Dumps(FeatureCollection(o.v.features))]
                          /\ ret' = Len(o.v.features)
                     ELSE /\ fpc' = "loop"
                          /\ UNCHANGED <<files, ret>>
    /\ UNCHANGED <<out_path, start_files, logging, bvars>>

FetchNext ==
    \/ \E feed \in Feeds : Start(feed)
    \/ \E r \in Responses : FetchPage(r)

----------------------------------------------------------------------------
\* fin-ev-dashboard/scripts/build_dataset.py

MaxLoc == 2
MaxSt == 2

\* load_json (lines 9-10)
load_json(text) ==
    IF text = Missing THEN Raise("FileNotFoundError") ELSE Value(Loads(text))

\* extract_features (lines 12-17)
extract_features(data) ==
    IF IsDict(data) /\ "features" \in DOMAIN data.d
    THEN Or(Get(data.d, "features"), JList(<<>>))
    ELSE IF IsList(data) THEN data
    ELSE JList(<<>>)

\* props.get("id") or props.get("locationId") or props.get("stationId")
\* (lines 27 and 57); the variant tests the keys' presence, not their values
ResolveIdFirstPresent(props) ==
    IF "id" \in DOMAIN props THEN props["id"]
    ELSE IF "locationId" \in DOMAIN props THEN props["locationId"]
    ELSE Get(props, "stationId")
ResolveId(props) == Or(Or(Get(props, "id"), Get(props, "locationId")), Get(props, "stationId"))

\* tables: pd.DataFrame(rows) has the rows' keys as columns, and none without
\* rows; the variants drop rows with a repeated id, and the columns of the
\* empty table
LocColumns == <<"id", "name", "operator", "city", "address", "lat", "lon", "raw_properties">>
StColumns == <<"id", "raw_status">>
RECURSIVE DropDuplicateIds(_)
DropDuplicateIds(rows) ==
    IF rows = <<>> THEN <<>>
    ELSE LET n == Len(rows)
             front == DropDuplicateIds(SubSeq(rows, 1, n - 1))
         IN IF \E i \in 1..Len(front) : front[i].id = rows[n].id THEN front
            ELSE Append(front, rows[n])
DataFrameDropDuplicates(rows, keys) ==
    [columns |-> IF rows = <<>> THEN <<>> ELSE keys, rows |-> DropDuplicateIds(rows)]
DataFrame(rows, keys) == [columns |-> IF rows = <<>> THEN <<>> ELSE keys, rows |-> rows]
EmptyFrameNoColumns(cols) == [columns |-> <<>>, rows |-> <<>>]
EmptyFrame(cols) == [columns |-> cols, rows |-> <<>>]
Range(seq) == {seq[i] : i \in 1..Len(seq)}
IsNA(cell) == cell = JNull

\* df.dropna(subset=...) (lines 41 and 65): KeyError on a column the table
\* lacks; the variant keeps every row
DropnaKeepAll(frame, subset) == Value(frame)
Dropna(frame, subset) ==
    IF ~(subset \subseteq Range(frame.columns)) THEN Raise("KeyError")
    ELSE Value([frame EXCEPT
             !.rows = SelectSeq(frame.rows, LAMBDA r : \A c \in subset : ~IsNA(r[c]))])

\* (coords + [None, None])[:2] (line 25), as <<lon, lat>>
LonLat(coords) == SubSeq(coords \o <<JNull, JNull>>, 1, 2)

\* the loop body of flatten_locations (lines 22-38): the row of feature f
LocRow(f) ==
    LET props == IF IsDict(f) THEN Or(Get(f.d, "properties"), JDict(EmptyDict))
                 ELSE JDict(EmptyDict)
        geom == IF IsDict(f) THEN Or(Get(f.d, "geometry"), JDict(EmptyDict))
                ELSE JDict(EmptyDict)
    IN IF ~IsDict(geom) THEN Raise("AttributeError")
       ELSE LET coords == Or(Get(geom.d, "coordinates"), JList(<<JNull, JNull>>))
            IN IF ~IsList(coords) THEN Raise("TypeError")
               ELSE IF ~IsDict(props) THEN Raise("AttributeError")
               ELSE Value([id |-> ResolveId(props.d),
                           name |-> Get(props.d, "name"),
                           operator |-> Or(Get(props.d, "operatorName"),
                                           Get(props.d, "operator")),
                           city |-> Get(props.d, "city"),
                           address |-> Or(Get(props.d, "address"),
                                          Get(props.d, "streetAddress")),
                           lat |-> LonLat(coords.l)[2],
                           lon |-> LonLat(coords.l)[1],
                           raw_properties |-> Dumps(props)])

\* the loop body of flatten_statuses (lines 50-61)
StRow(f) ==
    LET props == IF IsDict(f) /\ "properties" \in DOMAIN f.d
                 THEN Or(Get(f.d, "properties"), JDict(EmptyDict))
                 ELSE IF IsDict(f) THEN f
                 ELSE JDict(EmptyDict)
    IN IF ~IsDict(props) THEN Raise("AttributeError")
       ELSE Value([id |-> ResolveId(props.d), raw_status |-> Dumps(props)])

\* `for f in features: rows.append(...)`: the rows, or the first exception
RECURSIVE LocRows(_)
LocRows(fs) ==
    IF fs = <<>> THEN Value(<<>>)
    ELSE LET row == LocRow(Head(fs))
             rest == LocRows(Tail(fs))
         IN IF Raised(row) THEN row
            ELSE IF Raised(rest) THEN rest
            ELSE Value(<<row.v>> \o rest.v)

RECURSIVE StRows(_)
StRows(fs) ==
    IF fs = <<>> THEN Value(<<>>)
    ELSE LET row == StRow(Head(fs))
             rest == StRows(Tail(fs))
         IN IF Raised(row) THEN row
            ELSE IF Raised(rest) THEN rest
            ELSE Value(<<row.v>> \o rest.v)

\* flatten_locations (lines 19-42)
flatten_locations(fs) ==
    LET rows == LocRows(fs.l)
    IN IF Raised(rows) THEN rows
       ELSE Dropna(DataFrame(rows.v, LocColumns), {"id", "lat", "lon"})

\* flatten_statuses (lines 44-68)
flatten_statuses(fs) ==
    IF ~Truthy(fs) THEN Value(EmptyFrame(StColumns))
    ELSE LET rows == StRows(fs.l)
         IN IF Raised(rows) THEN rows
            ELSE LET frame == DataFrame(rows.v, StColumns)
                 IN IF "id" \in Range(frame.columns) THEN Dropna(frame, {"id"})
                    ELSE Value(EmptyFrame(StColumns))

\* df_loc.merge(df_st, on="id", how="left") (line 80): for every left row, in
\* order, one row per right row with the same id, or one row with a null status;
\* the variant is the inner join
Matches(l, rrows) == SelectSeq(rrows, LAMBDA r : r.id = l.id)
JoinRow(l, cell) == l @@ [raw_status |-> cell]
RECURSIVE LeftJoinRows(_, _)
LeftJoinRows(lrows, rrows) ==
    IF lrows = <<>> THEN <<>>
    ELSE LET l == Head(lrows)
             m == Matches(l, rrows)
             first == IF m = <<>> THEN <<JoinRow(l, JNull)>>
                      ELSE [i \in 1..Len(m) |-> JoinRow(l, m[i].raw_status)]
         IN first \o LeftJoinRows(Tail(lrows), rrows)
RECURSIVE InnerJoinRows(_, _)
InnerJoinRows(lrows, rrows) ==
    IF lrows = <<>> THEN <<>>
    ELSE LET l == Head(lrows)
             m == Matches(l, rrows)
         IN [i \in 1..Len(m) |-> JoinRow(l, m[i].raw_status)]
            \o InnerJoinRows(Tail(lrows), rrows)
MergeInner(left, right) ==
    IF "id" \notin Range(left.columns) \/ "id" \notin Range(right.columns)
    THEN Raise("KeyError")
    ELSE Value([columns |-> left.columns \o SelectSeq(right.columns, LAMBDA c : c # "id"),
                rows |-> InnerJoinRows(left.rows, right.rows)])
Merge(left, right) ==
    IF "id" \notin Range(left.columns) \/ "id" \notin Range(right.columns)
    THEN Raise("KeyError")
    ELSE Value([columns |-> left.columns \o SelectSeq(right.columns, LAMBDA c : c # "id"),
                rows |-> LeftJoinRows(left.rows, right.rows)])

\* df.to_csv(out_csv, index=False) (line 83): a header and a line per row, a
\* null cell written as the empty field
CsvField(cell) == IF IsNA(cell) THEN [field |-> ""] ELSE [field |-> cell]
to_csv(frame) ==
    [header |-> frame.columns,
     lines |-> [i \in 1..Len(frame.rows) |->
                  [j \in 1..Len(frame.columns) |-> CsvField(frame.rows[i][frame.columns[j]])]]]

NoFrame == [columns |-> <<>>, rows |-> <<>>]
NoCsv == [exists |-> FALSE]

BuildRaise(e) ==
    /\ bpc' = "raised"
    /\ berr' = e

\* lines 71-72
Load ==
    /\ bpc = "start"
    /\ LET l == load_json(files["locations"])
           s == load_json(files["statuses"])
       IN IF Raised(l) \/ Raised(s)
          THEN /\ BuildRaise(IF Raised(l) THEN l.exc ELSE s.exc)
               /\ UNCHANGED <<loc_data, st_data>>
          ELSE /\ bpc' = "loaded"
               /\ loc_data' = l.v
               /\ st_data' = s.v
               /\ berr' = berr
    /\ UNCHANGED <<loc_features, st_features, df_loc, df_st, df, csv, fvars>>

\* lines 74-75
Extract ==
    /\ bpc = "loaded"
    /\ bpc' = "extracted"
    /\ loc_features' = extract_features(loc_data)
    /\ st_features' = extract_features(st_data)
    /\ UNCHANGED <<loc_data, st_data, df_loc, df_st, df, csv, berr, fvars>>

\* line 77
FlattenLocations ==
    /\ bpc = "extracted"
    /\ LET o == flatten_locations(loc_features)
       IN IF Raised(o)
          THEN BuildRaise(o.exc) /\ df_loc' = df_loc
          ELSE bpc' = "loc" /\ df_loc' = o.v /\ berr' = berr
    /\ UNCHANGED <<loc_data, st_data, loc_features, st_features, df_st, df, csv, fvars>>

\* line 78
FlattenStatuses ==
    /\ bpc = "loc"
    /\ LET o == flatten_statuses(st_features)
       IN IF Raised(o)
          THEN BuildRaise(o.exc) /\ df_st' = df_st
          ELSE bpc' = "st" /\ df_st' = o.v /\ berr' = berr
    /\ UNCHANGED <<loc_data, st_data, loc_features, st_features, df_loc, df, csv, fvars>>

\* lines 80-85
MergeAndSave ==
    /\ bpc = "st"
    /\ LET o == Merge(df_loc, df_st)
       IN IF Raised(o)
          THEN BuildRaise(o.exc) /\ UNCHANGED <<df, csv>>
          ELSE bpc' = "saved" /\ df' = o.v /\ csv' = to_csv(o.v) /\ berr' = berr
    /\ UNCHANGED <<loc_data, st_data, loc_features, st_features, df_loc, df_st, fvars>>

BuildNext == Load \/ Extract \/ FlattenLocations \/ FlattenStatuses \/ MergeAndSave

----------------------------------------------------------------------------
\* Specifications

RECURSIVE SeqsUpTo(_, _)
SeqsUpTo(S, n) ==
    IF n = 0 THEN {<<>>}
    ELSE LET shorter == SeqsUpTo(S, n - 1)
         IN shorter \cup {Append(q, x) : q \in {r \in shorter : Len(r) = n - 1}, x \in S}

\* the texts a raw file may hold: a feature collection (what the fetcher writes),
\* a bare list, a collection whose features are null or absent, something else
RawTexts(lists) ==
    {Dumps(FeatureCollection(fs)) : fs \in lists}
    \cup {Dumps(JList(fs)) : fs \in {l \in lists : Len(l) <= 1}}
    \cup {Dumps(JDict([type |-> JStr("FeatureCollection"), features |-> JNull])),
          Dumps(JDict([type |-> JStr("FeatureCollection")])),
          Dumps(JNum(42)), Missing}

FetchIdle ==
    /\ fpc = "idle"
    /\ out_path = ""
    /\ features = <<>>
    /\ cursor = JNull
    /\ ferr = ""
    /\ ret = -1
    /\ requests = <<>>
    /\ responses = <<>>
    /\ start_files = files

BuildIdle ==
    /\ bpc = "start"
    /\ loc_data = JNull
    /\ st_data = JNull
    /\ loc_features = JList(<<>>)
    /\ st_features = JList(<<>>)
    /\ df_loc = NoFrame
    /\ df_st = NoFrame
    /\ df = NoFrame
    /\ csv = NoCsv
    /\ berr = ""

\* the build script run on raw files of the documented record shapes
Init ==
    /\ files \in {[locations |-> l, statuses |-> s] :
                     l \in RawTexts(SeqsUpTo(LocFeatureSet, MaxLoc)),
                     s \in RawTexts(SeqsUpTo(StFeatureSet, MaxSt))}
    /\ logging = TRUE
    /\ FetchIdle
    /\ BuildIdle
Next == BuildNext
Spec == Init /\ [][Next]_vars

\* the build script run on raw files whose records may have a defective field
DefectInit ==
    /\ files \in {[locations |-> l, statuses |-> s] :
                     l \in RawTexts(SeqsUpTo(LocFeatureSet \cup LocDefectSet, MaxLoc)),
                     s \in RawTexts(SeqsUpTo(StFeatureSet \cup StDefectSet, MaxSt))}
    /\ logging = TRUE
    /\ FetchIdle
    /\ BuildIdle
DefectSpec == DefectInit /\ [][Next]_vars

\* one call of fetch_all_geojson, the histories recorded
FetchInit ==
    /\ files \in [Feeds -> {Missing, OldText}]
    /\ logging = TRUE
    /\ FetchIdle
    /\ BuildIdle
FetchSpec == FetchInit /\ [][FetchNext]_vars

\* one call of fetch_all_geojson, the histories not recorded; the loop goes on
\* as long as requests are answered
FetchLiveInit ==
    /\ files \in [Feeds -> {Missing, OldText}]
    /\ logging = FALSE
    /\ FetchIdle
    /\ BuildIdle
FetchLiveSpec == FetchLiveInit /\ [][FetchNext]_vars /\ WF_vars(FetchNext)

----------------------------------------------------------------------------
\* Claims about the paginated fetcher

\* what a page carries, read off the response itself
PageIsValid(r) ==
    /\ r.status \in 200..299
    /\ r.body.t = "dict"
    /\ "features" \in DOMAIN r.body.d => r.body.d["features"].t = "list"
    /\ "pagination" \in DOMAIN r.body.d => r.body.d["pagination"].t \in {"dict", "null"}
PageFeatures(r) ==
    IF "features" \in DOMAIN r.body.d THEN r.body.d["features"].l ELSE <<>>
PageCursor(r) ==
    IF /\ "pagination" \in DOMAIN r.body.d
       /\ r.body.d["pagination"].t = "dict"
       /\ "nextCursor" \in DOMAIN r.body.d["pagination"].d
    THEN r.body.d["pagination"].d["nextCursor"]
    ELSE JNull
PageHasCursor(r) ==
    /\ PageCursor(r).t # "null"
    /\ PageCursor(r).t = "str" => PageCursor(r).s # ""
RECURSIVE ConcatPages(_)
ConcatPages(rs) == IF rs = <<>> THEN <<>> ELSE PageFeatures(Head(rs)) \o ConcatPages(Tail(rs))

\* C1: while the feed answers valid pages, the call has issued one request per
\* page, the first without a cursor and each later one with the nextCursor of the
\* page before; every page but the last carried a cursor; the accumulator is the
\* concatenation of the pages' feature lists in page order, nothing dropped,
\* reordered or deduplicated; and the call has stopped, and written exactly that
\* list, if and only if the last page carries no cursor.
C1_PagesConcatenatedInOrder ==
    (fpc # "idle" /\ \A i \in 1..Len(responses) : PageIsValid(responses[i])) =>
        /\ fpc \in {"loop", "done"}
        /\ Len(requests) = Len(responses)
        /\ \A i \in 1..Len(requests) :
              requests[i] = IF i = 1 THEN [limit |-> PageLimit]
                            ELSE [limit |-> PageLimit, cursor |-> PageCursor(responses[i - 1])]
        /\ \A i \in 1..(Len(responses) - 1) : PageHasCursor(responses[i])
        /\ features = ConcatPages(responses)
        /\ fpc = "done" <=> (responses # <<>> /\ ~PageHasCursor(responses[Len(responses)]))
        /\ fpc = "done" =>
              /\ files[out_path] = Dumps(FeatureCollection(ConcatPages(responses)))
              /\ files = [start_files EXCEPT ![out_path] = files[out_path]]
              /\ ret = Len(ConcatPages(responses))

\* C1 witness: three pages, two different cursors, a record repeated across pages
C1_Witness ==
    /\ fpc = "done"
    /\ Len(responses) = 3
    /\ \A i \in 1..3 : PageIsValid(responses[i])
    /\ PageCursor(responses[1]) = JStr("c1")
    /\ PageCursor(responses[2]) = JStr("c2")
    /\ features = <<LocA, LocB, LocA>>
    /\ files[out_path] = Dumps(FeatureCollection(<<LocA, LocB, LocA>>))

\* C2: a response with a non-success status is the last one of the call: no
\* request follows it, the call has raised the HTTP error, nothing was returned
\* and both files are as they were when the call started.
C2_FailFastNoPartialWrite ==
    \A i \in 1..Len(responses) :
        responses[i].status \notin 200..299 =>
            /\ i = Len(responses)
            /\ Len(requests) = i
            /\ fpc = "raised"
            /\ ferr = "HTTPError"
            /\ ret = -1
            /\ files = start_files

\* C2 witness: the error came after pages whose records were accumulated, and the
\* destination still holds the text of the earlier run
C2_Witness ==
    /\ fpc = "raised"
    /\ ferr = "HTTPError"
    /\ Len(responses) = 3
    /\ features # <<>>
    /\ files[out_path] = OldText

\* C3: a started call ends, returned or raised, whatever the feed answers.
C3_FetchTerminates == (fpc = "loop") ~> (fpc \in {"done", "raised"})

----------------------------------------------------------------------------
\* Claims about the build: what a record carries, read off the record itself

IdKeys == <<"id", "locationId", "stationId">>
NonEmpty(v) == v.t = "str" /\ v.s # ""
Count(seq, P(_)) == Cardinality({i \in 1..Len(seq) : P(seq[i])})

\* the properties mapping of a location record, and of a status record
FProps(f) ==
    IF f.t = "dict" /\ "properties" \in DOMAIN f.d /\ f.d["properties"].t = "dict"
    THEN f.d["properties"].d ELSE EmptyDict
SProps(f) ==
    IF f.t # "dict" THEN EmptyDict
    ELSE IF "properties" \notin DOMAIN f.d THEN f.d
    ELSE IF f.d["properties"].t = "dict" THEN f.d["properties"].d
    ELSE EmptyDict
\* the coordinates of a location record
FCoords(f) ==
    IF /\ f.t = "dict"
       /\ "geometry" \in DOMAIN f.d
       /\ f.d["geometry"].t = "dict"
       /\ "coordinates" \in DOMAIN f.d["geometry"].d
       /\ f.d["geometry"].d["coordinates"].t = "list"
    THEN f.d["geometry"].d["coordinates"].l ELSE <<>>
FCoord(f, i) == IF Len(FCoords(f)) >= i THEN FCoords(f)[i] ELSE JNull

\* the value of the first of the three keys that is present
FirstPresent(p) ==
    IF \E i \in 1..3 : IdKeys[i] \in DOMAIN p
    THEN p[IdKeys[CHOOSE i \in 1..3 :
                    /\ IdKeys[i] \in DOMAIN p
                    /\ \A j \in 1..(i - 1) : IdKeys[j] \notin DOMAIN p]]
    ELSE JNull
\* the value of the first of the three keys whose value is non-null and
\* non-empty; when there is none, the value of stationId if present, else null
HasTruthy(p, i) == IdKeys[i] \in DOMAIN p /\ NonEmpty(p[IdKeys[i]])
FirstTruthy(p) ==
    IF \E i \in 1..3 : HasTruthy(p, i)
    THEN p[IdKeys[CHOOSE i \in 1..3 :
                    HasTruthy(p, i) /\ \A j \in 1..(i - 1) : ~HasTruthy(p, j)]]
    ELSE IF "stationId" \in DOMAIN p THEN p["stationId"]
    ELSE JNull

Flattened == bpc \in {"loc", "st", "saved"}
StFlattened == bpc \in {"st", "saved"}
LocPart(r) == [c \in Range(LocColumns) |-> r[c]]
RowSig(r) == <<r.raw_properties, r.lon, r.lat>>
FeatureSig(f) == <<Dumps(JDict(FProps(f))), FCoord(f, 1), FCoord(f, 2)>>

\* C4: the merged table is the left join of the location table with the status
\* table on id: every merged row is a location row with a status cell; a
\* location row without a matching status appears once with a null status; a
\* location row with k matching statuses appears k times, once per status; the
\* merge of two flattened tables does not raise.
C4_MergeIsLeftJoin ==
    /\ bpc = "st" => ~Raised(Merge(df_loc, df_st))
    /\ bpc = "saved" =>
        /\ \A i \in 1..Len(df.rows) :
              \E j \in 1..Len(df_loc.rows) : LocPart(df.rows[i]) = df_loc.rows[j]
        /\ \A j \in 1..Len(df_loc.rows) :
              LET l == df_loc.rows[j]
                  copies == Count(df_loc.rows, LAMBDA x : x = l)
                  k == Count(df_st.rows, LAMBDA x : x.id = l.id)
              IN /\ Count(df.rows, LAMBDA x : LocPart(x) = l) >= 1
                 /\ k = 0 =>
                      /\ Count(df.rows, LAMBDA x : LocPart(x) = l) = copies
                      /\ \A i \in 1..Len(df.rows) :
                            LocPart(df.rows[i]) = l => IsNA(df.rows[i].raw_status)
                 /\ k >= 1 =>
                      /\ Count(df.rows, LAMBDA x : LocPart(x) = l) = copies * k
                      /\ \A m \in 1..Len(df_st.rows) :
                            df_st.rows[m].id = l.id =>
                               Count(df.rows, LAMBDA x :
                                  LocPart(x) = l /\ x.raw_status = df_st.rows[m].raw_status)
                               = copies * Count(df_st.rows, LAMBDA x :
                                  x.id = l.id /\ x.raw_status = df_st.rows[m].raw_status)

\* C4 witness: a location without a status and a location with two statuses
C4_Witness ==
    /\ bpc = "saved"
    /\ loc_features.l = <<LocB, LocA>>
    /\ st_features.l = <<StA, StA2>>
    /\ Len(df.rows) = 3
    /\ IsNA(df.rows[1].raw_status)
    /\ df.rows[2].raw_status # df.rows[3].raw_status

\* the records C5 says are excluded, and those it says are kept
C5_Excluded(f) ==
    \/ "geometry" \notin DOMAIN f.d
    \/ Len(FCoords(f)) < 2
    \/ \A i \in 1..3 : IdKeys[i] \notin DOMAIN FProps(f)
C5_Kept(f) ==
    /\ \E i \in 1..3 : HasTruthy(FProps(f), i)
    /\ Len(FCoords(f)) >= 2
    /\ FCoord(f, 1).t = "num"
    /\ FCoord(f, 2).t = "num"
\* C5: every row of the location table, and of the merged table, has a
\* non-null id, lat and lon; a record without geometry, with fewer than two
\* coordinates or with none of the three id keys has no row; a record with a
\* non-empty identifier and two coordinates has a row, with lon the first and
\* lat the second coordinate.
C5_RowsHaveIdAndCoordinates ==
    /\ Flattened =>
        /\ \A i \in 1..Len(df_loc.rows) :
              LET r == df_loc.rows[i]
              IN ~IsNA(r.id) /\ ~IsNA(r.lat) /\ ~IsNA(r.lon)
        /\ \A n \in 1..Len(loc_features.l) :
              LET f == loc_features.l[n]
                  rows == Count(df_loc.rows, LAMBDA r : RowSig(r) = FeatureSig(f))
              IN /\ C5_Excluded(f) => rows = 0
                 /\ C5_Kept(f) =>
                      rows = Count(loc_features.l, LAMBDA g : FeatureSig(g) = FeatureSig(f))
    /\ bpc = "saved" =>
        \A i \in 1..Len(df.rows) :
            LET r == df.rows[i]
            IN ~IsNA(r.id) /\ ~IsNA(r.lat) /\ ~IsNA(r.lon)

\* C5 witness: one record kept, with its coordinates in place, and one dropped
C5_Witness ==
    /\ bpc = "saved"
    /\ loc_features.l = <<LocNoGeom, LocA>>
    /\ Len(df_loc.rows) = 1
    /\ df_loc.rows[1].lon = JNum(24)
    /\ df_loc.rows[1].lat = JNum(60)
    /\ Len(df.rows) = 1

UniqueStatusIds ==
    \A i, j \in 1..Len(df_st.rows) : df_st.rows[i].id = df_st.rows[j].id => i = j

\* C6 as claimed: with no identifier shared by two status rows, no identifier
\* is carried by two rows of the merged table.
C6_OneRowPerIdentifier ==
    (bpc = "saved" /\ UniqueStatusIds) =>
        \A i, j \in 1..Len(df.rows) : df.rows[i].id = df.rows[j].id => i = j

\* a location record that resolves to an identifier and has two coordinates
C6_Accepted(f) ==
    /\ ~IsNA(FirstTruthy(FProps(f)))
    /\ ~IsNA(FCoord(f, 1))
    /\ ~IsNA(FCoord(f, 2))
\* C6 as amended: with no identifier shared by two status rows, the merged
\* table has one row per accepted location record, in the records' order: an
\* identifier has as many rows as there are records with coordinates that
\* resolve to it.
C6_OneRowPerAcceptedRecord ==
    (bpc = "saved" /\ UniqueStatusIds) =>
        LET accepted == SelectSeq(loc_features.l, C6_Accepted)
        IN /\ Len(df.rows) = Len(accepted)
           /\ \A i \in 1..Len(df.rows) :
                 /\ df.rows[i].id = FirstTruthy(FProps(accepted[i]))
                 /\ RowSig(df.rows[i]) = FeatureSig(accepted[i])
           /\ \A i \in 1..Len(df.rows) :
                 Count(df.rows, LAMBDA r : r.id = df.rows[i].id)
                 = Count(accepted, LAMBDA f : FirstTruthy(FProps(f)) = df.rows[i].id)

\* C6 witness: two records that resolve to the same identifier, two rows
C6_Witness ==
    /\ bpc = "saved"
    /\ UniqueStatusIds
    /\ loc_features.l = <<LocA, LocA2>>
    /\ Len(df.rows) = 2
    /\ df.rows[1].id = df.rows[2].id

\* C7: a raw file without features, whatever its top-level shape, does not
\* make the build fail.
C7_FeaturelessInputTolerated ==
    (bpc = "raised" /\ berr # "FileNotFoundError") =>
        (loc_features.l # <<>> /\ st_features.l # <<>>)

\* C8: no record, whatever its shape, makes flatten_locations or
\* flatten_statuses raise.
C8_RecordDefectsAbsorbed ==
    bpc = "raised" => berr \notin {"AttributeError", "TypeError"}

\* C9: flatten_statuses returns, for every list, a table with the columns id
\* and raw_status and no null id; the merge with it does not raise; when it has
\* no rows the merged table is the location table, row for row, with a null
\* status.
C9_StatusTableKeepsSchema ==
    /\ bpc = "loc" => ~Raised(flatten_statuses(st_features))
    /\ StFlattened =>
        /\ df_st.columns = <<"id", "raw_status">>
        /\ \A i \in 1..Len(df_st.rows) : ~IsNA(df_st.rows[i].id)
    /\ bpc = "st" => ~Raised(Merge(df_loc, df_st))
    /\ (bpc = "saved" /\ df_st.rows = <<>>) =>
        /\ Len(df.rows) = Len(df_loc.rows)
        /\ \A i \in 1..Len(df.rows) :
              /\ LocPart(df.rows[i]) = df_loc.rows[i]
              /\ IsNA(df.rows[i].raw_status)
        /\ Range(df.columns) = Range(LocColumns) \cup {"raw_status"}

\* C9 witness: an empty status list, and location rows in the merged table
C9_Witness ==
    /\ bpc = "saved"
    /\ st_features.l = <<>>
    /\ df_st.rows = <<>>
    /\ Len(df.rows) = 2

\* C10 as claimed: the identifier of a row is the value of the first of the
\* keys id, locationId, stationId present in the record's properties.
C10_FirstPresentKey ==
    /\ Flattened =>
        \A i \in 1..Len(df_loc.rows) :
            df_loc.rows[i].id = FirstPresent(Loads(df_loc.rows[i].raw_properties).d)
    /\ StFlattened =>
        \A i \in 1..Len(df_st.rows) :
            df_st.rows[i].id = FirstPresent(Loads(df_st.rows[i].raw_status).d)

\* C10 as amended: the identifier of a row, in both tables, is the value of
\* the first of the keys id, locationId, stationId whose value is non-null and
\* non-empty, and when there is none, the value of stationId if present, else
\* null; the rows of the status table are the records whose identifier is
\* not null, in order; a location with id X and a status with locationId X
\* join.
C10_FirstTruthyKey ==
    /\ Flattened =>
        \A i \in 1..Len(df_loc.rows) :
            df_loc.rows[i].id = FirstTruthy(Loads(df_loc.rows[i].raw_properties).d)
    /\ StFlattened =>
        LET kept == SelectSeq(st_features.l, LAMBDA f : ~IsNA(FirstTruthy(SProps(f))))
        IN /\ Len(df_st.rows) = Len(kept)
           /\ \A i \in 1..Len(kept) :
                 /\ df_st.rows[i].id = FirstTruthy(SProps(kept[i]))
                 /\ df_st.rows[i].raw_status = Dumps(JDict(SProps(kept[i])))
    /\ (bpc = "saved" /\ loc_features.l = <<LocA>> /\ st_features.l = <<StA>>) =>
        /\ Len(df.rows) = 1
        /\ df.rows[1].id = JStr("A")
        /\ df.rows[1].lat = JNum(60)
        /\ df.rows[1].lon = JNum(24)
        /\ ~IsNA(df.rows[1].raw_status)

\* C10 witness: an empty id before a locationId, an id before a locationId,
\* and the join of an id with a locationId
C10_Witness ==
    /\ bpc = "saved"
    /\ loc_features.l = <<LocEmptyId, LocA2>>
    /\ st_features.l = <<StA, StBlank>>
    /\ df_loc.rows[1].id = JStr("B")
    /\ df_loc.rows[2].id = JStr("A")
    /\ df_st.rows[2].id = JStr("")
    /\ df.rows[2].raw_status = Dumps(JDict(SProps(StA)))

====
